---- MODULE Spec2Model ----
(***************************************************************************)
(* Session report lifecycle and DOCX export of src/app.py.                 *)
(*                                                                         *)
(* Every browser session re-runs the script top to bottom on each widget   *)
(* event; exactly one of the triggers (file uploader change, "Generate     *)
(* Report", "Export as DOCX", "Clear All") is active in a run.  Each       *)
(* session owns its own st.session_state; all sessions of the process      *)
(* share the working directory, hence the two fixed export file names.     *)
(***************************************************************************)
EXTENDS Integers, FiniteSets, Sequences, TLC

\* ---- bounds of the model ----
NumImages == 2
NumTexts == 2

Sessions == {"s1", "s2"}
Images == 1 .. NumImages
Texts == 1 .. NumTexts

\* value of uploaded_file when the uploader holds no file
NoFile == 0

\* the two keys the script ever puts in st.session_state
Keys == {"report_content", "uploaded_image"}

\* what model.generate_content / response.text can do
Responses == {"raise", "null", "blocked", "ok"}

\* places where the export handler can raise for reasons of the environment
Faults == {"none", "write", "picture", "save", "read"}

VARIABLES
    uploaded,       \* per session: value of the file_uploader widget
    session_state,  \* per session: st.session_state, a function on a subset of Keys
    img_file,       \* content of ./uploaded_image.jpg, {} when the file does not exist
    doc_file,       \* content of ./AI_Medical_Report.docx, {} when it does not exist
    pc,             \* per session: position inside a running export handler
    doc,            \* per session: the python-docx Document being built
    data,           \* per session: bytes handed to st.download_button
    last            \* the script run that finished last and what it showed

vars == <<uploaded, session_state, img_file, doc_file, pc, doc, data, last>>

\* ---- st.session_state ----
EmptyState == [k \in {} |-> 0]

Contains(ss, k) == k \in DOMAIN ss

SetItem(ss, k, v) == [x \in (DOMAIN ss) \cup {k} |-> IF x = k THEN v ELSE ss[x]]

DelItem(ss, k) == [x \in (DOMAIN ss) \ {k} |-> ss[x]]

\* lines 124-127 with the second membership test dropped
SaveReportAlwaysImage(ss, text, up) ==
    LET s1 == IF ~Contains(ss, "report_content")
              THEN SetItem(ss, "report_content", text) ELSE ss
    IN SetItem(s1, "uploaded_image", up)

SaveReport(ss, text, up) ==
    LET s1 == IF ~Contains(ss, "report_content")
              THEN SetItem(ss, "report_content", text) ELSE ss
    IN IF ~Contains(s1, "uploaded_image")
       THEN SetItem(s1, "uploaded_image", up) ELSE s1

\* a clear that forgets the image key
ClearStateOnlyReport(ss) == DelItem(ss, "report_content")

RECURSIVE ClearState(_)
ClearState(ss) ==
    IF DOMAIN ss = {} THEN ss
    ELSE LET k == CHOOSE x \in DOMAIN ss : TRUE
         IN ClearState(DelItem(ss, k))

HasReport(ss) == Contains(ss, "report_content") /\ Contains(ss, "uploaded_image")

\* ---- Generate Report handler ----
\* an exception in the analysis call wipes the session
GenerateResultWipeOnError(ss, up, resp, text) ==
    IF up = NoFile THEN [state |-> ss, shown |-> {"warning_noimage"}]
    ELSE CASE resp = "raise"   -> [state |-> EmptyState, shown |-> {"error_exception"}]
           [] resp = "null"    -> [state |-> ss, shown |-> {"error_failed"}]
           [] resp = "blocked" -> [state |-> EmptyState, shown |-> {"success", "error_exception"}]
           [] resp = "ok"      -> [state |-> SaveReport(ss, text, up),
                                   shown |-> {"success", "report"}]

\* the response is not tested for truthiness
GenerateResultNoNullCheck(ss, up, resp, text) ==
    IF up = NoFile THEN [state |-> ss, shown |-> {"warning_noimage"}]
    ELSE CASE resp = "raise"   -> [state |-> ss, shown |-> {"error_exception"}]
           [] resp = "null"    -> [state |-> ss, shown |-> {"success", "error_exception"}]
           [] resp = "blocked" -> [state |-> ss, shown |-> {"success", "error_exception"}]
           [] resp = "ok"      -> [state |-> SaveReport(ss, text, up),
                                   shown |-> {"success", "report"}]

GenerateResult(ss, up, resp, text) ==
    IF up = NoFile THEN [state |-> ss, shown |-> {"warning_noimage"}]
    ELSE CASE resp = "raise"   -> [state |-> ss, shown |-> {"error_exception"}]
           [] resp = "null"    -> [state |-> ss, shown |-> {"error_failed"}]
           [] resp = "blocked" -> [state |-> ss, shown |-> {"success", "error_exception"}]
           [] resp = "ok"      -> [state |-> SaveReport(ss, text, up),
                                   shown |-> {"success", "report"}]

\* ---- Export as DOCX handler ----
NoDoc == [img |-> 0, text |-> 0]

ExportGuard(ss) == Contains(ss, "report_content") /\ Contains(ss, "uploaded_image")

\* the picture is taken from the uploader instead of the session
ExportImageBytesFromUploader(ss, up) == up

ExportImageBytes(ss, up) == ss["uploaded_image"]

DocOf(ss) == [img |-> ss["uploaded_image"], text |-> ss["report_content"]]

\* the session is emptied once the download has been offered
ExportResultConsumes(ss, up, imgf, docf, fault, partial) ==
    IF ~ExportGuard(ss)
    THEN [state |-> ss, img_file |-> imgf, doc_file |-> docf,
          shown |-> {"warning_noreport"}, download |-> {}]
    ELSE LET bytes == ExportImageBytes(ss, up)
             d == [img |-> bytes, text |-> ss["report_content"]]
         IN CASE fault = "write" ->
                   [state |-> ss, img_file |-> IF partial THEN {0} ELSE imgf,
                    doc_file |-> docf, shown |-> {"uncaught"}, download |-> {}]
              [] fault = "picture" ->
                   [state |-> ss, img_file |-> {bytes}, doc_file |-> docf,
                    shown |-> {"uncaught"}, download |-> {}]
              [] fault = "save" ->
                   [state |-> ss, img_file |-> {bytes},
                    doc_file |-> IF partial THEN {NoDoc} ELSE docf,
                    shown |-> {"uncaught"}, download |-> {}]
              [] fault = "read" ->
                   [state |-> ss, img_file |-> {bytes}, doc_file |-> {d},
                    shown |-> {"uncaught"}, download |-> {}]
              [] fault = "none" ->
                   [state |-> EmptyState, img_file |-> {}, doc_file |-> {},
                    shown |-> {"download"}, download |-> {d}]

\* the document file is created before the session is looked at
ExportResultEagerFile(ss, up, imgf, docf, fault, partial) ==
    IF ~ExportGuard(ss)
    THEN [state |-> ss, img_file |-> imgf, doc_file |-> {NoDoc},
          shown |-> {"warning_noreport"}, download |-> {}]
    ELSE LET bytes == ExportImageBytes(ss, up)
             d == [img |-> bytes, text |-> ss["report_content"]]
         IN CASE fault = "write" ->
                   [state |-> ss, img_file |-> IF partial THEN {0} ELSE imgf,
                    doc_file |-> docf, shown |-> {"uncaught"}, download |-> {}]
              [] fault = "picture" ->
                   [state |-> ss, img_file |-> {bytes}, doc_file |-> docf,
                    shown |-> {"uncaught"}, download |-> {}]
              [] fault = "save" ->
                   [state |-> ss, img_file |-> {bytes},
                    doc_file |-> IF partial THEN {NoDoc} ELSE docf,
                    shown |-> {"uncaught"}, download |-> {}]
              [] fault = "read" ->
                   [state |-> ss, img_file |-> {bytes}, doc_file |-> {d},
                    shown |-> {"uncaught"}, download |-> {}]
              [] fault = "none" ->
                   [state |-> ss, img_file |-> {}, doc_file |-> {},
                    shown |-> {"download"}, download |-> {d}]

\* One whole run of the export handler; imgf/docf are the two files before
\* the run.  fault names the statement that raises (nothing catches it, the
\* run ends there); partial tells whether the failed write left a file.
ExportResult(ss, up, imgf, docf, fault, partial) ==
    IF ~ExportGuard(ss)
    THEN [state |-> ss, img_file |-> imgf, doc_file |-> docf,
          shown |-> {"warning_noreport"}, download |-> {}]
    ELSE LET bytes == ExportImageBytes(ss, up)
             d == [img |-> bytes, text |-> ss["report_content"]]
         IN CASE fault = "write" ->
                   [state |-> ss, img_file |-> IF partial THEN {0} ELSE imgf,
                    doc_file |-> docf, shown |-> {"uncaught"}, download |-> {}]
              [] fault = "picture" ->
                   [state |-> ss, img_file |-> {bytes}, doc_file |-> docf,
                    shown |-> {"uncaught"}, download |-> {}]
              [] fault = "save" ->
                   [state |-> ss, img_file |-> {bytes},
                    doc_file |-> IF partial THEN {NoDoc} ELSE docf,
                    shown |-> {"uncaught"}, download |-> {}]
              [] fault = "read" ->
                   [state |-> ss, img_file |-> {bytes}, doc_file |-> {d},
                    shown |-> {"uncaught"}, download |-> {}]
              [] fault = "none" ->
                   [state |-> ss, img_file |-> {}, doc_file |-> {},
                    shown |-> {"download"}, download |-> {d}]

\* ---- the record of the run that finished last ----
Run(op, s, had, shown, download, resp, text, img) ==
    [op |-> op, s |-> s, had |-> had, shown |-> shown, download |-> download,
     resp |-> resp, text |-> text, img |-> img]

Init ==
    /\ uploaded = [s \in Sessions |-> NoFile]
    /\ session_state = [s \in Sessions |-> EmptyState]
    /\ img_file = {}
    /\ doc_file = {}
    /\ pc = [s \in Sessions |-> "idle"]
    /\ doc = [s \in Sessions |-> NoDoc]
    /\ data = [s \in Sessions |-> {}]
    /\ last = Run("start", "s1", FALSE, {}, {}, "none", 0, 0)

\* The user picks, replaces or removes the file; the rerun only shows it.
Upload(s) ==
    /\ pc[s] = "idle"
    /\ \E f \in (Images \cup {NoFile}) \ {uploaded[s]} :
          uploaded' = [uploaded EXCEPT ![s] = f]
    /\ last' = Run("upload", s, HasReport(session_state[s]), {}, {}, "none", 0, 0)
    /\ UNCHANGED <<session_state, img_file, doc_file, pc, doc, data>>

Generate(s) ==
    /\ pc[s] = "idle"
    /\ \E resp \in Responses, text \in Texts :
          LET up == uploaded[s]
              r == GenerateResult(session_state[s], up, resp, text)
          IN /\ session_state' = [session_state EXCEPT ![s] = r.state]
             /\ last' = Run("generate", s, HasReport(session_state[s]), r.shown, {},
                            IF up = NoFile THEN "none" ELSE resp,
                            IF up # NoFile /\ resp = "ok" THEN text ELSE 0,
                            up)
    /\ UNCHANGED <<uploaded, img_file, doc_file, pc, doc, data>>

\* The export handler run without any other session running in between.
Export(s) ==
    /\ \A t \in Sessions : pc[t] = "idle"
    /\ \E fault \in Faults, partial \in BOOLEAN :
          LET r == ExportResult(session_state[s], uploaded[s], img_file, doc_file,
                                fault, partial)
          IN /\ session_state' = [session_state EXCEPT ![s] = r.state]
             /\ img_file' = r.img_file
             /\ doc_file' = r.doc_file
             /\ last' = Run("export", s, HasReport(session_state[s]), r.shown,
                            r.download, "none", 0, 0)
    /\ UNCHANGED <<uploaded, pc, doc, data>>

Clear(s) ==
    /\ pc[s] = "idle"
    /\ session_state' = [session_state EXCEPT ![s] = ClearState(session_state[s])]
    /\ last' = Run("clear", s, HasReport(session_state[s]), {}, {}, "none", 0, 0)
    /\ UNCHANGED <<uploaded, img_file, doc_file, pc, doc, data>>

Next ==
    \E s \in Sessions :
        \/ Upload(s)
        \/ Generate(s)
        \/ Export(s)
        \/ Clear(s)

Spec == Init /\ [][Next]_vars

\* ---- the export handler statement by statement ----
\* Sessions run in threads of one process, so the statements of two export
\* runs interleave; both use the same two paths in the working directory.
\* Here no statement fails for reasons of the environment: an error is a
\* FileNotFoundError caused by the state of the two files.

\* lines 135-146 (or 168-169 when there is nothing to export)
ExportWriteImage(s) ==
    /\ pc[s] = "idle"
    /\ IF ~ExportGuard(session_state[s])
       THEN /\ last' = Run("export", s, FALSE, {"warning_noreport"}, {}, "none", 0, 0)
            /\ UNCHANGED <<img_file, pc, doc>>
       ELSE /\ img_file' = {ExportImageBytes(session_state[s], uploaded[s])}
            /\ doc' = [doc EXCEPT ![s] = NoDoc]
            /\ pc' = [pc EXCEPT ![s] = "picture"]
            /\ UNCHANGED last
    /\ UNCHANGED <<uploaded, session_state, doc_file, data>>

\* lines 147-150: add_picture opens the path and reads the file as it is now
ExportAddPicture(s) ==
    /\ pc[s] = "picture"
    /\ IF img_file = {}
       THEN /\ pc' = [pc EXCEPT ![s] = "idle"]
            /\ doc' = [doc EXCEPT ![s] = NoDoc]
            /\ last' = Run("export", s, TRUE, {"uncaught"}, {}, "none", 0, 0)
       ELSE /\ \E b \in img_file :
                  doc' = [doc EXCEPT ![s] =
                             [img |-> b, text |-> session_state[s]["report_content"]]]
            /\ pc' = [pc EXCEPT ![s] = "save"]
            /\ UNCHANGED last
    /\ UNCHANGED <<uploaded, session_state, img_file, doc_file, data>>

\* lines 153-154
ExportSave(s) ==
    /\ pc[s] = "save"
    /\ doc_file' = {doc[s]}
    /\ pc' = [pc EXCEPT ![s] = "read"]
    /\ UNCHANGED <<uploaded, session_state, img_file, doc, data, last>>

\* lines 157-163: the button takes the bytes of the file as it is now
ExportDownload(s) ==
    /\ pc[s] = "read"
    /\ IF doc_file = {}
       THEN /\ pc' = [pc EXCEPT ![s] = "idle"]
            /\ doc' = [doc EXCEPT ![s] = NoDoc]
            /\ last' = Run("export", s, TRUE, {"uncaught"}, {}, "none", 0, 0)
            /\ UNCHANGED data
       ELSE /\ data' = [data EXCEPT ![s] = doc_file]
            /\ pc' = [pc EXCEPT ![s] = "unlink_img"]
            /\ UNCHANGED <<doc, last>>
    /\ UNCHANGED <<uploaded, session_state, img_file, doc_file>>

\* line 166
ExportUnlinkImage(s) ==
    /\ pc[s] = "unlink_img"
    /\ IF img_file = {}
       THEN /\ pc' = [pc EXCEPT ![s] = "idle"]
            /\ doc' = [doc EXCEPT ![s] = NoDoc]
            /\ data' = [data EXCEPT ![s] = {}]
            /\ last' = Run("export", s, TRUE, {"download", "uncaught"}, data[s],
                           "none", 0, 0)
            /\ UNCHANGED img_file
       ELSE /\ img_file' = {}
            /\ pc' = [pc EXCEPT ![s] = "unlink_doc"]
            /\ UNCHANGED <<doc, data, last>>
    /\ UNCHANGED <<uploaded, session_state, doc_file>>

\* line 167
ExportUnlinkDoc(s) ==
    /\ pc[s] = "unlink_doc"
    /\ doc_file' = {}
    /\ pc' = [pc EXCEPT ![s] = "idle"]
    /\ doc' = [doc EXCEPT ![s] = NoDoc]
    /\ data' = [data EXCEPT ![s] = {}]
    /\ last' = Run("export", s, TRUE,
                   IF doc_file = {} THEN {"download", "uncaught"} ELSE {"download"},
                   data[s], "none", 0, 0)
    /\ UNCHANGED <<uploaded, session_state, img_file>>

NextConc ==
    \E s \in Sessions :
        \/ Upload(s)
        \/ Generate(s)
        \/ Clear(s)
        \/ ExportWriteImage(s)
        \/ ExportAddPicture(s)
        \/ ExportSave(s)
        \/ ExportDownload(s)
        \/ ExportUnlinkImage(s)
        \/ ExportUnlinkDoc(s)

SpecConc == Init /\ [][NextConc]_vars

\* ======================= properties =======================

Stored(s) == session_state[s]

\* C1: every successful generate replaces the stored Report: right after a
\* successful generate the session holds the text of that response and the
\* image that was submitted with it.
C1_SuccessfulGenerateOverwrites ==
    (last.op = "generate" /\ last.resp = "ok")
        => /\ HasReport(Stored(last.s))
           /\ Stored(last.s)["report_content"] = last.text
           /\ Stored(last.s)["uploaded_image"] = last.img

\* C2: when an export run has ended, normally or by an error raised inside
\* it, neither the temporary image file nor the temporary document file
\* exists.
C2_NoTempFilesAfterExport ==
    last.op = "export" => (img_file = {} /\ doc_file = {})

\* C3: with the statements of two sessions' exports interleaved, an export of
\* a stored Report ends without an error and delivers the document made of
\* its own session's image and text.
C3_ConcurrentExportsIsolated ==
    (last.op = "export" /\ last.had)
        => /\ last.shown = {"download"}
           /\ last.download = {DocOf(Stored(last.s))}

\* C4: a generate that fails (no image uploaded, the analyzer raising, the
\* analyzer returning an empty response) leaves the session's store exactly
\* as it was before.
C4_FailedGenerateKeepsStore ==
    [][\A s \in Sessions :
          (last'.op = "generate" /\ last'.s = s
             /\ last'.resp \in {"none", "raise", "null", "blocked"})
          => session_state'[s] = session_state[s]]_vars

C4_Witness ==
    /\ last.op = "generate"
    /\ last.resp \in {"none", "raise", "null"}
    /\ last.had
    /\ HasReport(Stored(last.s))

\* C5: an export taken while the store is empty shows the NoReport warning,
\* creates neither file, offers no download and leaves the store empty.
C5_ExportWithoutReport ==
    [][\A s \in Sessions :
          (last'.op = "export" /\ last'.s = s /\ session_state[s] = EmptyState)
          => /\ last'.shown = {"warning_noreport"}
             /\ last'.download = {}
             /\ img_file' = img_file
             /\ doc_file' = doc_file
             /\ session_state'[s] = EmptyState]_vars

C5_Witness ==
    /\ last.op = "export"
    /\ ~last.had
    /\ last.shown = {"warning_noreport"}
    /\ Stored(last.s) = EmptyState

\* C6: a clear from any reachable session state leaves the store empty, and
\* clearing twice gives the same state as clearing once.
C6_ClearEmptiesAndIdempotent ==
    /\ last.op = "clear" => Stored(last.s) = EmptyState
    /\ \A s \in Sessions :
          /\ ClearState(Stored(s)) = EmptyState
          /\ ClearState(ClearState(Stored(s))) = ClearState(Stored(s))

C6_Witness ==
    /\ last.op = "clear"
    /\ last.had
    /\ Stored(last.s) = EmptyState

\* C7: the store is always either empty or holds a text and an image that
\* one and the same successful generate captured: it never holds one key
\* without the other, and it only ever changes to empty or to the pair of
\* the generate that has just succeeded.
C7_ReportFromOneCall ==
    /\ \A s \in Sessions : DOMAIN session_state[s] \in {{}, Keys}
    /\ [][\A s \in Sessions :
             /\ DOMAIN session_state'[s] \in {{}, Keys}
             /\ session_state'[s] # session_state[s]
                  => \/ session_state'[s] = EmptyState
                     \/ /\ last'.op = "generate" /\ last'.s = s /\ last'.resp = "ok"
                        /\ session_state'[s] =
                             [k \in Keys |-> IF k = "report_content"
                                             THEN last'.text ELSE last'.img]]_vars

\* a later successful generate with another image and another answer has run
\* and the store still holds a whole Report
C7_Witness ==
    /\ last.op = "generate" /\ last.resp = "ok" /\ last.had
    /\ HasReport(Stored(last.s))
    /\ Stored(last.s)["uploaded_image"] # last.img
    /\ Stored(last.s)["report_content"] # last.text

\* C8: an export taken while a Report is stored leaves the store unchanged
\* (still holding the Report), and a document it delivers is the one made of
\* the stored image and text, so consecutive exports deliver the same one.
C8_ExportKeepsStore ==
    [][\A s \in Sessions :
          (last'.op = "export" /\ last'.s = s /\ HasReport(session_state[s]))
          => /\ session_state'[s] = session_state[s]
             /\ last'.download \in {{}, {DocOf(session_state[s])}}]_vars

C8_Witness ==
    /\ last.op = "export" /\ last.had
    /\ last.shown = {"download"}
    /\ HasReport(Stored(last.s))
    /\ last.download = {DocOf(Stored(last.s))}

C10_ReuploadKeepsReport ==
    [][\A s \in Sessions :
          /\ (last'.op = "upload" /\ last'.s = s)
               => session_state'[s] = session_state[s]
          /\ (last'.op = "export" /\ last'.s = s /\ HasReport(session_state[s]))
               => \A d \in last'.download :
                     /\ d.img = session_state[s]["uploaded_image"]
                     /\ d.text = session_state[s]["report_content"]]_vars

C10_Witness ==
    /\ last.op = "export" /\ last.had
    /\ last.download # {}
    /\ HasReport(Stored(last.s))
    /\ uploaded[last.s] \in Images
    /\ uploaded[last.s] # Stored(last.s)["uploaded_image"]

====
